---- MODULE Spec2Model ----
(***************************************************************************)
(* Barcode scan ledger: App (src/App.tsx, first component, lines 1-313),   *)
(* ScannerView (src/components/ScannerView.tsx) and the storage service    *)
(* (src/services/storageService.ts).                                       *)
(*                                                                         *)
(* Strings are sequences of one-character strings so that trim() and the   *)
(* exact-match comparison of codes are computed, not assumed.  Time is the  *)
(* value of Date.now() in milliseconds.                                    *)
(***************************************************************************)
EXTENDS Integers, Sequences, FiniteSets

(* ----------------------------- constants ------------------------------ *)

\* setTimeout(() => setLastScanned(null), 2000) in handleSuccessScan
SuppressionWindow == 2000
\* setTimeout(..., 1500) in syncToRemote
SyncLatency == 1500
\* granularity of the clock; a timeout runs at the first instant at or after
\* its deadline
Tick == SuppressionWindow \div 2

(* ------------------------------- bounds ------------------------------- *)

\* the clock stops advancing here
MaxTime == 2000
\* handleScan is applied at most this many times
MaxScans == 3

(* ------------------------------ strings ------------------------------- *)

SP == " "
c123 == <<"1", "2", "3">>
c456 == <<"4", "5", "6">>
blank == <<SP>>
padded123 == <<SP, "1", "2", "3", SP>>

\* what the user may type into the manual code field
ManualInputs == {padded123, c456, blank}
\* barcodes[0].rawValue as delivered by BarcodeDetector
RawValues == {c123, blank}
\* the value null of `string | null` (no code has this shape)
Null == <<"null">>

RECURSIVE TrimStart(_)
TrimStart(s) ==
    IF s # <<>> /\ Head(s) = SP THEN TrimStart(Tail(s)) ELSE s

RECURSIVE TrimEnd(_)
TrimEnd(s) ==
    IF s # <<>> /\ s[Len(s)] = SP THEN TrimEnd(SubSeq(s, 1, Len(s) - 1)) ELSE s

\* String.prototype.trim
Trim(s) == TrimEnd(TrimStart(s))

\* JavaScript truthiness of a string
Truthy(s) == s # <<>>

(* ------------------------------- state -------------------------------- *)

VARIABLES
    view,           \* App: 'home' | 'scanning' | 'history' (settings is not modelled)
    mode,           \* App: 'single' | 'series'
    items,          \* App: ScannedItem[]
    isSyncing,      \* App
    isOnline,       \* App
    stored,         \* localStorage['barcodelink_items']
    sync,           \* the pending syncToRemote promise
    remoteWrites,   \* syncToRemote calls whose promise has not settled
    now,            \* Date.now()
    lastScanned,    \* ScannerView state
    timers,         \* ScannerView: pending setLastScanned(null) timeouts
    orphan,         \* the mode of an unmounted ScannerView whose detect() call is
                    \* still awaited, "none" if there is none
    accepted,       \* history: onScan calls per code since the last clear
    nScans,         \* handleScan calls so far
    lastAccepted,   \* history: the last onScan call of the mounted ScannerView
    phase,          \* App: "rendered" (first render committed, effects not
                    \* run yet), "mounted" (mount effects run, their state
                    \* updates not rendered yet), "running", or "unmounted"
                    \* (torn down by React after an uncaught error)
    queued,         \* the value of a setItems call not rendered yet
    access,         \* how localStorage answers: "ok", "full" (setItem
                    \* throws QuotaExceededError) or "denied" (every access
                    \* throws SecurityError)
    settings,       \* App: AppSettings
    storedSettings, \* localStorage['barcodelink_settings']
    download        \* the content of the file exportToTxt offered last

vars == <<view, mode, items, isSyncing, isOnline, stored, sync, remoteWrites,
          now, lastScanned, timers, orphan,
          accepted, nScans, lastAccepted,
          phase, queued, access, settings, storedSettings, download>>

appVars == <<view, mode, isSyncing, isOnline, sync, remoteWrites>>
scannerVars == <<lastScanned, timers, orphan>>
ledgerVars == <<items, stored, accepted, nScans, phase>>
\* what only startup, the storage of the browser and an export change
platformVars == <<queued, access, settings, storedSettings, download>>

Modes == {"single", "series"}
AllCodes == RawValues \cup {Trim(s) : s \in ManualInputs}

NoSync == [active |-> FALSE, snap |-> <<>>, due |-> 0]
NoAccept == [code |-> Null, at |-> 0, src |-> "none"]

\* the record of an onScan(code) call made now by the mounted ScannerView
Accept(code, src) == [code |-> code, at |-> now, src |-> src]

(* ------------------------- storageService.ts -------------------------- *)

\* characters that JSON and the export format treat specially
QUOTE == "\""
BSL == "\\"
TAB == "\t"
LF == "\n"

DecimalDigits == <<"0", "1", "2", "3", "4", "5", "6", "7", "8", "9">>

IsDigit(ch) == ch \in {"0", "1", "2", "3", "4", "5", "6", "7", "8", "9"}

\* the value of a decimal digit character
DigitValue(ch) ==
    CASE ch = "0" -> 0 [] ch = "1" -> 1 [] ch = "2" -> 2 [] ch = "3" -> 3
      [] ch = "4" -> 4 [] ch = "5" -> 5 [] ch = "6" -> 6 [] ch = "7" -> 7
      [] ch = "8" -> 8 [] ch = "9" -> 9

\* Number.prototype.toString of a non-negative integer
RECURSIVE NumberToString(_)
NumberToString(n) ==
    IF n < 10 THEN <<DecimalDigits[n + 1]>>
    ELSE NumberToString(n \div 10) \o <<DecimalDigits[(n % 10) + 1]>>

\* the JSON grammar for an integer: digits, no leading zero
IsNumberText(t) ==
    /\ t # <<>>
    /\ \A i \in 1..Len(t) : IsDigit(t[i])
    /\ Len(t) > 1 => t[1] # "0"

\* the number that the first k digits of t spell
RECURSIVE NumberOfDigits(_, _)
NumberOfDigits(t, k) ==
    IF k = 0 THEN 0 ELSE 10 * NumberOfDigits(t, k - 1) + DigitValue(t[k])

StringToNumber(t) == NumberOfDigits(t, Len(t))

\* JSON.stringify of the characters k.. of a string, appended to the text
\* written so far
RECURSIVE JSONEscape(_, _, _)
JSONEscape(s, k, written) ==
    IF k > Len(s) THEN written
    ELSE JSONEscape(s, k + 1,
                    CASE s[k] = QUOTE -> written \o <<BSL, QUOTE>>
                      [] s[k] = BSL -> written \o <<BSL, BSL>>
                      [] s[k] = TAB -> written \o <<BSL, "t">>
                      [] s[k] = LF -> written \o <<BSL, "n">>
                      [] OTHER -> Append(written, s[k]))

\* JSON.stringify of a string: its characters between quotes, copied when
\* none of them needs an escape
JSONString(s) ==
    IF \A k \in 1..Len(s) : s[k] \notin {QUOTE, BSL, TAB, LF}
    THEN <<QUOTE>> \o s \o <<QUOTE>>
    ELSE Append(JSONEscape(s, 1, <<QUOTE>>), QUOTE)

\* what JSON.parse answers: a value, or a thrown SyntaxError
Parsed(v) == [ok |-> TRUE, value |-> v]
SyntaxError == [ok |-> FALSE, value |-> <<>>]

\* JSON.parse of the characters k..last of t, the inside of a string: what
\* they spell, appended to the characters read so far
RECURSIVE JSONUnescape(_, _, _, _)
JSONUnescape(t, k, last, read) ==
    IF k > last THEN Parsed(read)
    ELSE IF t[k] = BSL
    THEN IF k = last \/ t[k + 1] \notin {QUOTE, BSL, "t", "n"}
         THEN SyntaxError
         ELSE JSONUnescape(t, k + 2, last,
                           Append(read, CASE t[k + 1] = "t" -> TAB
                                          [] t[k + 1] = "n" -> LF
                                          [] OTHER -> t[k + 1]))
    ELSE IF t[k] \in {QUOTE, TAB, LF} THEN SyntaxError
    ELSE JSONUnescape(t, k + 1, last, Append(read, t[k]))

\* JSON.parse of a string: the characters between the quotes, copied when
\* there is neither an escape nor a character that must be escaped
JSONParseString(t) ==
    IF Len(t) < 2 \/ t[1] # QUOTE \/ t[Len(t)] # QUOTE THEN SyntaxError
    ELSE IF \A k \in 2..(Len(t) - 1) : t[k] \notin {QUOTE, BSL, TAB, LF}
    THEN Parsed(SubSeq(t, 2, Len(t) - 1))
    ELSE JSONUnescape(t, 2, Len(t) - 1, <<>>)

\* JSON.parse of true or false
JSONParseBoolean(t) ==
    IF t = "true" THEN Parsed(TRUE)
    ELSE IF t = "false" THEN Parsed(FALSE) ELSE SyntaxError

\* JSON.stringify of a ScannedItem, key by key (braces, key names, colons
\* and commas are not spelled out): a string becomes its quoted and escaped
\* text and a boolean the word true or false.  timestamp and quantity are
\* integers (Date.now(), a counter from 1), which JSON writes exactly, and
\* the id stands for a UUID, which has nothing to escape: the three are kept
\* as the values they are
JSONStringifyItem(e) ==
    [id |-> e.id,
     code |-> JSONString(e.code),
     timestamp |-> e.timestamp,
     quantity |-> e.quantity,
     synced |-> IF e.synced THEN "true" ELSE "false"]

\* JSON.stringify(items): the text of each element, in order
JSONStringify(its) == [i \in 1..Len(its) |-> JSONStringifyItem(its[i])]

\* JSON.parse of one element
JSONParseItem(o) ==
    LET code == JSONParseString(o.code)
        synced == JSONParseBoolean(o.synced)
    IN  IF code.ok /\ synced.ok
        THEN Parsed([id |-> o.id, code |-> code.value,
                     timestamp |-> o.timestamp,
                     quantity |-> o.quantity, synced |-> synced.value])
        ELSE SyntaxError

\* JSON.parse of the stored text
JSONParse(text) ==
    LET elements == [i \in 1..Len(text) |-> JSONParseItem(text[i])]
    IN  IF \A i \in 1..Len(text) : elements[i].ok
        THEN Parsed([i \in 1..Len(text) |-> elements[i].value])
        ELSE SyntaxError

\* saveStoredItems: localStorage.setItem(ITEMS, JSON.stringify(items))
saveStoredItems(its) == [has |-> TRUE, data |-> JSONStringify(its)]

\* clearData: localStorage.removeItem(ITEMS)
clearData == [has |-> FALSE, data |-> <<>>]

\* getStoredItems: data ? JSON.parse(data) : [], and [] when getItem or
\* JSON.parse throws
getStoredItems(st) ==
    IF access = "denied" \/ ~st.has THEN <<>>
    ELSE LET parsed == JSONParse(st.data)
         IN  IF parsed.ok THEN parsed.value ELSE <<>>

\* DEFAULT_SETTINGS: remotePath is the UNC path \\host\share\file of the
\* source with its three names cut to a letter each, deviceId is 'DEV-' and
\* the number drawn when the module is loaded, written n
DEFAULT_SETTINGS ==
    [remotePath |-> <<BSL, BSL, "h", BSL, "s", BSL, "f">>,
     autoSync |-> FALSE,
     deviceId |-> <<"D", "E", "V", "-", "n">>]

\* JSON.stringify(settings), key by key
JSONStringifySettings(v) ==
    [remotePath |-> JSONString(v.remotePath),
     autoSync |-> IF v.autoSync THEN "true" ELSE "false",
     deviceId |-> JSONString(v.deviceId)]

\* JSON.parse of the stored settings
JSONParseSettings(text) ==
    LET remotePath == JSONParseString(text.remotePath)
        autoSync == JSONParseBoolean(text.autoSync)
        deviceId == JSONParseString(text.deviceId)
    IN  IF remotePath.ok /\ autoSync.ok /\ deviceId.ok
        THEN [ok |-> TRUE,
              value |-> [remotePath |-> remotePath.value,
                         autoSync |-> autoSync.value,
                         deviceId |-> deviceId.value]]
        ELSE [ok |-> FALSE, value |-> DEFAULT_SETTINGS]

\* saveSettings: localStorage.setItem(SETTINGS, JSON.stringify(settings))
saveSettings(v) == [has |-> TRUE, data |-> JSONStringifySettings(v)]

\* localStorage without the settings key
NoSettingsStored ==
    [has |-> FALSE,
     data |-> [remotePath |-> <<>>, autoSync |-> "", deviceId |-> <<>>]]

\* getSettings: data ? JSON.parse(data) : DEFAULT_SETTINGS, and
\* DEFAULT_SETTINGS when getItem or JSON.parse throws
getSettings(st) ==
    IF access = "denied" \/ ~st.has THEN DEFAULT_SETTINGS
    ELSE LET parsed == JSONParseSettings(st.data)
         IN  IF parsed.ok THEN parsed.value ELSE DEFAULT_SETTINGS

(* ------------------------------ App.tsx ------------------------------- *)

\* a search that answers the last match: findLastIndex
findIndex_FromBack(its, code) ==
    IF \E i \in 1..Len(its) : its[i].code = code
    THEN CHOOSE i \in 1..Len(its) :
            its[i].code = code /\ \A j \in (i + 1)..Len(its) : its[j].code # code
    ELSE 0

\* Array.prototype.findIndex(item => item.code === code), 1-based, 0 for -1
findIndex(its, code) ==
    IF \E i \in 1..Len(its) : its[i].code = code
    THEN CHOOSE i \in 1..Len(its) :
            its[i].code = code /\ \A j \in 1..(i - 1) : its[j].code # code
    ELSE 0

\* splice that removes nothing
splice_Keep(its, i) == its

\* splice(index) without the delete count: removes the rest of the array
splice_Through(its, i) == SubSeq(its, 1, i - 1)

\* Array.prototype.splice(index, 1)
splice(its, i) == SubSeq(its, 1, i - 1) \o SubSeq(its, i + 1, Len(its))

\* push instead of unshift
unshift_AtEnd(its, e) == Append(its, e)

\* Array.prototype.unshift
unshift(its, e) == <<e>> \o its

\* an entry created without a quantity
newItem_NoQuantity(id, code, timestamp) ==
    [id |-> id, code |-> code, timestamp |-> timestamp,
     quantity |-> 0, synced |-> FALSE]

newItem(id, code, timestamp) ==
    [id |-> id, code |-> code, timestamp |-> timestamp,
     quantity |-> 1, synced |-> FALSE]

\* handleScan without the series branch
handleScanUpdate_AlwaysNew(prevItems, m, code, timestamp, id) ==
    unshift(prevItems, newItem(id, code, timestamp))

\* handleScan whose series branch forgets `quantity + 1`
handleScanUpdate_KeepQuantity(prevItems, m, code, timestamp, id) ==
    IF m = "series" /\ findIndex(prevItems, code) >= 1
    THEN LET existingIndex == findIndex(prevItems, code)
             existingItem == prevItems[existingIndex] IN
         unshift(splice(prevItems, existingIndex),
                 [existingItem EXCEPT !.timestamp = timestamp,
                                      !.synced = FALSE])
    ELSE unshift(prevItems, newItem(id, code, timestamp))

\* handleScan whose series branch forgets `synced: false`
handleScanUpdate_KeepSynced(prevItems, m, code, timestamp, id) ==
    IF m = "series" /\ findIndex(prevItems, code) >= 1
    THEN LET existingIndex == findIndex(prevItems, code)
             existingItem == prevItems[existingIndex] IN
         unshift(splice(prevItems, existingIndex),
                 [existingItem EXCEPT !.quantity = existingItem.quantity + 1,
                                      !.timestamp = timestamp])
    ELSE unshift(prevItems, newItem(id, code, timestamp))

\* handleScan whose series branch updates the entry where it is
handleScanUpdate_InPlace(prevItems, m, code, timestamp, id) ==
    IF m = "series" /\ findIndex(prevItems, code) >= 1
    THEN LET existingIndex == findIndex(prevItems, code)
             existingItem == prevItems[existingIndex] IN
         [prevItems EXCEPT ![existingIndex] =
             [existingItem EXCEPT !.quantity = existingItem.quantity + 1,
                                  !.timestamp = timestamp,
                                  !.synced = FALSE]]
    ELSE unshift(prevItems, newItem(id, code, timestamp))

\* the updater handleScan passes to setItems
handleScanUpdate(prevItems, m, code, timestamp, id) ==
    IF m = "series"
    THEN LET existingIndex == findIndex(prevItems, code) IN
         IF existingIndex >= 1
         THEN LET existingItem == prevItems[existingIndex] IN
              unshift(splice(prevItems, existingIndex),
                      [existingItem EXCEPT !.quantity = existingItem.quantity + 1,
                                           !.timestamp = timestamp,
                                           !.synced = FALSE])
         ELSE unshift(prevItems, newItem(id, code, timestamp))
    ELSE unshift(prevItems, newItem(id, code, timestamp))

\* an id taken from the position the entry will have, as an array index is
randomUUID_FromLength == Len(items) + 1

\* crypto.randomUUID(): a value no earlier call returned, here the number of
\* the handleScan call that asks for it
randomUUID == nScans + 1

\* the cap on the number of scans
WithinBounds == nScans < MaxScans

\* the save effect, useEffect(() => saveStoredItems(items), [items]), run
\* after a render with a new ledger its while localStorage holds st.  It ends
\* the effects of the first render, or those of a later one.  When setItem
\* throws, nothing is written and the error, which nothing catches, makes
\* React unmount the App
SaveEffect(st, its) ==
    IF access = "ok"
    THEN /\ stored' = saveStoredItems(its)
         /\ phase' = IF phase = "rendered" THEN "mounted" ELSE "running"
    ELSE /\ stored' = st
         /\ phase' = "unmounted"

\* handleScan saving the ledger of the render it closed over
handleScan_SavesStale(code, m) ==
    /\ items' = handleScanUpdate(items, m, code, now, randomUUID)
    /\ SaveEffect(stored, items)
    /\ accepted' = [accepted EXCEPT ![code] = @ + 1]
    /\ nScans' = nScans + 1

\* handleScan(code) of the render whose mode is m, followed by the
\* save effect of the re-render
handleScan(code, m) ==
    /\ items' = handleScanUpdate(items, m, code, now, randomUUID)
    /\ SaveEffect(stored, items')
    /\ accepted' = [accepted EXCEPT ![code] = @ + 1]
    /\ nScans' = nScans + 1

(* -------------------------- ScannerView.tsx --------------------------- *)

\* setTimeout(callback, delay): a timeout whose deadline lies beyond the
\* end of the clock can never run and is not kept
setTimeout(pending, delay) ==
    IF now + delay <= MaxTime THEN pending \cup {now + delay} ELSE pending

\* handleSuccessScan(code) of the mounted ScannerView
handleSuccessScan(code) ==
    /\ lastScanned' = code
    /\ handleScan(code, mode)
    /\ timers' = setTimeout(timers, SuppressionWindow)

\* handleManualSubmit with the check detectLoop makes
HandleManualSubmit_Debounced ==
    /\ view = "scanning"
    /\ \E manualCode \in ManualInputs :
          IF Truthy(Trim(manualCode)) /\ Trim(manualCode) # lastScanned
          THEN /\ WithinBounds
               /\ handleSuccessScan(Trim(manualCode))
               /\ lastAccepted' = Accept(Trim(manualCode), "manual")
               /\ UNCHANGED <<appVars, now, orphan>>
          ELSE UNCHANGED vars
    /\ UNCHANGED platformVars

\* handleManualSubmit
HandleManualSubmit ==
    /\ view = "scanning"
    /\ \E manualCode \in ManualInputs :
          IF Truthy(Trim(manualCode))
          THEN /\ WithinBounds
               /\ handleSuccessScan(Trim(manualCode))
               /\ lastAccepted' = Accept(Trim(manualCode), "manual")
               /\ UNCHANGED <<appVars, now, orphan>>
          ELSE UNCHANGED vars
    /\ UNCHANGED platformVars

\* the setTimeout callback of handleSuccessScan: setLastScanned(null)
TimerDue == \E t \in timers : t <= now

TimerFire ==
    /\ TimerDue
    /\ lastScanned' = Null
    /\ timers' = {t \in timers : t > now}
    /\ UNCHANGED <<appVars, ledgerVars, now, orphan, lastAccepted>>
    /\ UNCHANGED platformVars

\* the value of lastScanned that detectLoop reads: startScanning is called
\* from the mount effect's startCamera, so detectLoop closes over the first
\* render, where useState gave lastScanned = null
detectLoopLastScanned == Null

\* the outcomes of detector.detect: no barcode (or a rejection, which the
\* catch swallows), or barcodes[0].rawValue
NoBarcode == <<"none">>
DetectResults == {NoBarcode} \cup RawValues

\* one turn of detectLoop in the mounted ScannerView, once startScanning has
\* requested the first frame: detector.detect is awaited, its result handled
\* and the next frame requested
DetectLoop ==
    /\ view = "scanning"
    /\ \E code \in DetectResults :
          IF code # NoBarcode /\ code # detectLoopLastScanned
          THEN /\ WithinBounds
               /\ handleSuccessScan(code)
               /\ lastAccepted' = Accept(code, "camera")
          ELSE UNCHANGED <<ledgerVars, lastScanned, timers, lastAccepted>>
    /\ UNCHANGED <<appVars, now, orphan>>
    /\ UNCHANGED platformVars

\* detectLoop after the await when its ScannerView was unmounted meanwhile:
\* setLastScanned and the reset timer act on the unmounted component and do
\* nothing, onScan is the handleScan of the render that mounted it (its mode);
\* the next frame finds videoRef.current null and only re-requests itself
OrphanResolve ==
    /\ orphan # "none"
    /\ orphan' = "none"
    /\ \E code \in DetectResults :
          IF code # NoBarcode /\ code # detectLoopLastScanned
          THEN /\ WithinBounds
               /\ handleScan(code, orphan)
          ELSE UNCHANGED ledgerVars
    /\ UNCHANGED <<appVars, now, lastScanned, timers, lastAccepted>>
    /\ UNCHANGED platformVars

(* --------------------------- App.tsx, views --------------------------- *)

\* mode buttons that are also shown over the scanner
StartSession_AnyView ==
    /\ view \in {"home", "scanning"}
    /\ \E m \in Modes : mode' = m
    /\ view' = "scanning"
    /\ lastScanned' = Null
    /\ timers' = {}
    /\ lastAccepted' = NoAccept
    /\ UNCHANGED <<isSyncing, isOnline, sync, remoteWrites, ledgerVars, now,
                   orphan>>
    /\ UNCHANGED platformVars

\* renderHome: setMode(m); setView('scanning'); ScannerView mounts
StartSession ==
    /\ view = "home"
    /\ \E m \in Modes : mode' = m
    /\ view' = "scanning"
    /\ lastScanned' = Null
    /\ timers' = {}
    /\ lastAccepted' = NoAccept
    /\ UNCHANGED <<isSyncing, isOnline, sync, remoteWrites, ledgerVars, now,
                   orphan>>
    /\ UNCHANGED platformVars

\* onClose: setView('history'); ScannerView unmounts and its effect cleanup
\* runs cancelAnimationFrame(scanInterval.current), which stops a requested
\* frame but not a detect() call that is awaited at that moment (awaiting).
\* The state and the timers of the unmounted component have no further
\* effect.  One such call is followed at a time: a view is not closed with a
\* call awaited while the call of an earlier view is still awaited.
CloseScanner ==
    /\ view = "scanning"
    /\ view' = "history"
    /\ \E awaiting \in BOOLEAN :
          /\ awaiting => orphan = "none"
          /\ orphan' = IF awaiting THEN mode ELSE orphan
    /\ lastScanned' = Null
    /\ timers' = {}
    /\ lastAccepted' = NoAccept
    /\ UNCHANGED <<mode, isSyncing, isOnline, sync, remoteWrites, ledgerVars,
                   now>>
    /\ UNCHANGED platformVars

\* renderHome: setView('history')
OpenHistory ==
    /\ view = "home"
    /\ view' = "history"
    /\ UNCHANGED <<mode, isSyncing, isOnline, sync, remoteWrites, ledgerVars,
                   now, scannerVars, lastAccepted>>
    /\ UNCHANGED platformVars

\* Header onBack, shown when view !== 'home'
Back ==
    /\ view = "history"
    /\ view' = "home"
    /\ UNCHANGED <<mode, isSyncing, isOnline, sync, remoteWrites, ledgerVars,
                   now, scannerVars, lastAccepted>>
    /\ UNCHANGED platformVars

\* window 'online' / 'offline' listeners
HandleOnline ==
    /\ ~isOnline
    /\ isOnline' = TRUE
    /\ UNCHANGED <<view, mode, isSyncing, sync, remoteWrites, ledgerVars, now,
                   scannerVars, lastAccepted>>
    /\ UNCHANGED platformVars

HandleOffline ==
    /\ isOnline
    /\ isOnline' = FALSE
    /\ UNCHANGED <<view, mode, isSyncing, sync, remoteWrites, ledgerVars, now,
                   scannerVars, lastAccepted>>
    /\ UNCHANGED platformVars

(* --------------------------- App.tsx, sync ---------------------------- *)

\* a sync button that stays enabled while a sync is pending
SyncDisabled_FlagIgnored == Len(items) = 0 \/ ~isOnline

\* the disabled attribute of the sync button in renderHistory
SyncDisabled == isSyncing \/ Len(items) = 0 \/ ~isOnline

\* handleSync and its button without the tests for an empty ledger
HandleSync_NoEmptyCheck ==
    /\ view = "history"
    /\ ~(isSyncing \/ ~isOnline)
    /\ now + SyncLatency <= MaxTime
    /\ IF ~isOnline
       THEN UNCHANGED <<isSyncing, sync, remoteWrites>>
       ELSE /\ isSyncing' = TRUE
            /\ sync' = [active |-> TRUE, snap |-> items,
                        due |-> now + SyncLatency]
            /\ remoteWrites' = remoteWrites + 1
    /\ UNCHANGED <<view, mode, isOnline, ledgerVars, now,
                   scannerVars, lastAccepted>>
    /\ UNCHANGED platformVars

\* handleSync and its button without the tests for connectivity
HandleSync_NoOfflineCheck ==
    /\ view = "history"
    /\ ~(isSyncing \/ Len(items) = 0)
    /\ now + SyncLatency <= MaxTime
    /\ IF Len(items) = 0
       THEN UNCHANGED <<isSyncing, sync, remoteWrites>>
       ELSE /\ isSyncing' = TRUE
            /\ sync' = [active |-> TRUE, snap |-> items,
                        due |-> now + SyncLatency]
            /\ remoteWrites' = remoteWrites + 1
    /\ UNCHANGED <<view, mode, isOnline, ledgerVars, now,
                   scannerVars, lastAccepted>>
    /\ UNCHANGED platformVars

\* handleSync up to `await syncToRemote(items, settings)`; a sync is started
\* only while the clock can still reach its completion
HandleSync ==
    /\ view = "history"
    /\ ~SyncDisabled
    /\ now + SyncLatency <= MaxTime
    /\ IF Len(items) = 0 \/ ~isOnline
       THEN UNCHANGED <<isSyncing, sync, remoteWrites>>
       ELSE /\ isSyncing' = TRUE
            /\ sync' = [active |-> TRUE, snap |-> items,
                        due |-> now + SyncLatency]
            /\ remoteWrites' = remoteWrites + 1
    /\ UNCHANGED <<view, mode, isOnline, ledgerVars, now,
                   scannerVars, lastAccepted>>
    /\ UNCHANGED platformVars

\* what syncToRemote resolves with: resolve(true) is its only outcome
syncToRemote == TRUE

\* a completion that marks only the entry at the front
markAllSynced_FrontOnly(prev) ==
    [i \in 1..Len(prev) |-> IF i = 1 THEN [prev[i] EXCEPT !.synced = TRUE]
                                     ELSE prev[i]]

\* setItems(prev => prev.map(item => ({...item, synced: true})))
markAllSynced(prev) == [i \in 1..Len(prev) |-> [prev[i] EXCEPT !.synced = TRUE]]

\* the timeout of syncToRemote has run out
SyncDue == sync.active /\ sync.due <= now

\* a completion that marks the entries handleSync closed over, not the
\* ledger of the moment: setItems(items.map(...))
SyncComplete_WritesSnapshot ==
    /\ SyncDue
    /\ IF syncToRemote
       THEN /\ items' = markAllSynced(sync.snap)
            /\ SaveEffect(stored, items')
       ELSE UNCHANGED <<items, stored, phase>>
    /\ isSyncing' = FALSE
    /\ sync' = NoSync
    /\ remoteWrites' = remoteWrites - 1
    /\ UNCHANGED <<view, mode, isOnline, accepted, nScans, now,
                   scannerVars, lastAccepted>>
    /\ UNCHANGED platformVars

\* handleSync after the await, with the save effect of the re-render
SyncComplete ==
    /\ SyncDue
    /\ IF syncToRemote
       THEN /\ items' = markAllSynced(items)
            /\ SaveEffect(stored, items')
       ELSE UNCHANGED <<items, stored, phase>>
    /\ isSyncing' = FALSE
    /\ sync' = NoSync
    /\ remoteWrites' = remoteWrites - 1
    /\ UNCHANGED <<view, mode, isOnline, accepted, nScans, now,
                   scannerVars, lastAccepted>>
    /\ UNCHANGED platformVars

\* handleClearData: confirm(), clearData(), setItems([]) and the save effect;
\* when removeItem throws, the handler ends there
HandleClearData ==
    /\ view = "history"
    /\ \E confirm \in BOOLEAN :
          IF confirm /\ access # "denied"
          THEN /\ items' = <<>>
               /\ SaveEffect(clearData, items')
               /\ accepted' = [c \in DOMAIN accepted |-> 0]
          ELSE UNCHANGED <<items, stored, accepted, phase>>
    /\ UNCHANGED <<appVars, nScans, now, scannerVars, lastAccepted>>
    /\ UNCHANGED platformVars

(* ------------------------------- time --------------------------------- *)

\* Date.now() advances; a timeout that is due runs first
AdvanceTime ==
    /\ now + Tick <= MaxTime
    /\ ~TimerDue
    /\ ~SyncDue
    /\ now' = now + Tick
    /\ UNCHANGED <<appVars, ledgerVars, scannerVars, lastAccepted>>
    /\ UNCHANGED platformVars

(* ------------------------------- Init --------------------------------- *)

\* the first launch, after the mount effect (setItems(getStoredItems()) with
\* nothing stored yet) and the save effect have run

Init ==
    /\ access = "ok"
    /\ view = "home"
    /\ mode = "single"
    /\ items = getStoredItems(clearData)
    /\ isSyncing = FALSE
    /\ isOnline \in BOOLEAN
    /\ stored = saveStoredItems(items)
    /\ sync = NoSync
    /\ remoteWrites = 0
    /\ now = 0
    /\ lastScanned = Null
    /\ timers = {}
    /\ orphan = "none"
    /\ accepted = [c \in AllCodes |-> 0]
    /\ nScans = 0
    /\ lastAccepted = NoAccept
    /\ phase = "running"
    /\ queued = <<>>
    /\ storedSettings = NoSettingsStored
    /\ settings = getSettings(storedSettings)
    /\ download = Null

Next ==
    \/ StartSession
    \/ CloseScanner
    \/ OpenHistory
    \/ Back
    \/ HandleOnline
    \/ HandleOffline
    \/ HandleManualSubmit
    \/ DetectLoop
    \/ OrphanResolve
    \/ TimerFire
    \/ HandleSync
    \/ SyncComplete
    \/ HandleClearData
    \/ AdvanceTime

Spec == Init /\ [][Next]_vars

(* ------------------------------ helpers ------------------------------- *)

Indices(its) == 1..Len(its)
Ids(its) == {its[i].id : i \in Indices(its)}

RECURSIVE SumQty(_, _)
SumQty(its, c) ==
    IF its = <<>> THEN 0
    ELSE (IF Head(its).code = c THEN Head(its).quantity ELSE 0)
         + SumQty(Tail(its), c)

RECURSIVE Total(_, _)
Total(f, S) ==
    IF S = {} THEN 0
    ELSE LET c == CHOOSE x \in S : TRUE IN f[c] + Total(f, S \ {c})

NoDuplicateCodes ==
    \A i, j \in Indices(items) : items[i].code = items[j].code => i = j

\* a step in which handleScan ran
ScanApplied == nScans' = nScans + 1
\* ... called by the mounted ScannerView
LiveScan == ScanApplied /\ orphan' = orphan
\* the mode of the render whose handleScan ran
ScanMode == IF orphan' = orphan THEN mode ELSE orphan
\* ... for code c
Scanned(c) == ScanApplied /\ accepted'[c] = accepted[c] + 1

\* the first entry from the front with code c, 0 if there is none
FirstWith(its, c) ==
    IF \E i \in Indices(its) : its[i].code = c
    THEN CHOOSE i \in Indices(its) :
            its[i].code = c /\ \A j \in Indices(its) : its[j].code = c => i <= j
    ELSE 0

\* e is a new quantity-1 unsynced entry for c, stamped now, with an id no
\* entry of its has
FreshEntry(e, c, its) ==
    /\ e.code = c
    /\ e.quantity = 1
    /\ e.timestamp = now
    /\ e.synced = FALSE
    /\ e.id \notin Ids(its)

\* after is before with a fresh entry for c put at the front
Prepended(before, after, c) ==
    /\ Len(after) = Len(before) + 1
    /\ FreshEntry(after[1], c, before)
    /\ \A i \in Indices(before) : after[i + 1] = before[i]

\* after is before with the entry at k incremented, restamped, unsynced and
\* moved to the front, the others keeping their order
MovedToFront(before, after, k) ==
    /\ Len(after) = Len(before)
    /\ after[1] = [id |-> before[k].id, code |-> before[k].code,
                   timestamp |-> now, quantity |-> before[k].quantity + 1,
                   synced |-> FALSE]
    /\ \A i \in 1..(k - 1) : after[i + 1] = before[i]
    /\ \A i \in (k + 1)..Len(before) : after[i] = before[i]

(* --------------------- a remote call that can fail -------------------- *)

\* the ways the promise that handleSync awaits can settle: resolve(true),
\* resolve(false), or a rejection, which `await` turns into a throw
AwaitOutcomes == {"true", "false", "rejected"}

\* a failed sync that still marks the entry at the front
handleSyncFailed_MarksFront(prev) ==
    [i \in 1..Len(prev) |-> IF i = 1 THEN [prev[i] EXCEPT !.synced = TRUE]
                                     ELSE prev[i]]

\* handleSync after the await when success is false: the `if (success)`
\* body is skipped
handleSyncFailed(prev) == prev

\* a successful sync that takes the uploaded entries out of the ledger
handleSyncTry_DropsUploaded(prev, outcome) ==
    IF outcome = "true" THEN <<>> ELSE handleSyncFailed(prev)

\* the body of try { success = await ...; if (success) setItems(...) } for
\* each outcome of the await; a throw leaves the try block before setItems
handleSyncTry(prev, outcome) ==
    IF outcome = "true" THEN markAllSynced(prev) ELSE handleSyncFailed(prev)

\* handleSync without `finally`: the flag is cleared only when the try
\* body runs to its end
SyncSettleWith_NoFinally(outcome) ==
    /\ SyncDue
    /\ items' = handleSyncTry(items, outcome)
    /\ IF outcome = "true"
       THEN SaveEffect(stored, items')
       ELSE UNCHANGED <<stored, phase>>
    /\ isSyncing' = (isSyncing /\ outcome = "rejected")
    /\ sync' = NoSync
    /\ remoteWrites' = remoteWrites - 1
    /\ UNCHANGED <<view, mode, isOnline, accepted, nScans, now,
                   scannerVars, lastAccepted>>
    /\ UNCHANGED platformVars

\* handleSync after the await for the outcome given: the try body, then
\* finally { setIsSyncing(false) }, then the save effect if items changed
SyncSettleWith(outcome) ==
    /\ SyncDue
    /\ items' = handleSyncTry(items, outcome)
    /\ IF outcome = "true"
       THEN SaveEffect(stored, items')
       ELSE UNCHANGED <<stored, phase>>
    /\ isSyncing' = FALSE
    /\ sync' = NoSync
    /\ remoteWrites' = remoteWrites - 1
    /\ UNCHANGED <<view, mode, isOnline, accepted, nScans, now,
                   scannerVars, lastAccepted>>
    /\ UNCHANGED platformVars

SyncSettle == \E outcome \in AwaitOutcomes : SyncSettleWith(outcome)

\* the program with SyncSettle in the place of SyncComplete
NextUnreliable ==
    \/ StartSession
    \/ CloseScanner
    \/ OpenHistory
    \/ Back
    \/ HandleOnline
    \/ HandleOffline
    \/ HandleManualSubmit
    \/ DetectLoop
    \/ OrphanResolve
    \/ TimerFire
    \/ HandleSync
    \/ SyncSettle
    \/ HandleClearData
    \/ AdvanceTime

\* time passes and the event loop runs the timeouts and promise
\* continuations that are due
SpecUnreliable ==
    /\ Init
    /\ [][NextUnreliable]_vars
    /\ WF_vars(AdvanceTime)
    /\ WF_vars(TimerFire)
    /\ WF_vars(SyncSettle)

(* ------------------------------ startup ------------------------------- *)

\* a persisted ledger has at most this many entries
MaxStored == 2

\* a payload with a quote, a backslash and a tab, as a QR symbol can carry
cQuoted == <<QUOTE, BSL, TAB>>

\* codes of entries saved by earlier sessions
StoredCodes == {c123, cQuoted}

EntryShapes == [code : StoredCodes, quantity : {1, 2}, synced : BOOLEAN]

\* the ledger, newest first, whose entries have these codes, quantities and
\* flags
LedgerOf(shapes) ==
    [i \in 1..Len(shapes) |->
        [id |-> Len(shapes) - i + 1, code |-> shapes[i].code, timestamp |-> 0,
         quantity |-> shapes[i].quantity, synced |-> shapes[i].synced]]

\* the ledgers an earlier session can have left behind
PersistedLedgers ==
    {LedgerOf(shapes) :
        shapes \in UNION {[1..n -> EntryShapes] : n \in 0..MaxStored}}

\* stored text that JSON.parse rejects: a write that was cut short inside a
\* string, and one cut short inside a word
UnparsableItems ==
    {[has |-> TRUE,
      data |-> <<[id |-> 1, code |-> <<QUOTE, "1">>, timestamp |-> 0,
                  quantity |-> 1, synced |-> "false"]>>],
     [has |-> TRUE,
      data |-> <<[id |-> 1, code |-> JSONString(c123), timestamp |-> 0,
                  quantity |-> 1, synced |-> "fal"]>>]}

\* what localStorage['barcodelink_items'] can hold when the App starts
ItemBlobs ==
    {clearData} \cup {saveStoredItems(L) : L \in PersistedLedgers}
        \cup UnparsableItems

\* settings as handleSaveSettings saves them
SavedSettings ==
    [remotePath |-> <<BSL, BSL, "x">>, autoSync |-> TRUE, deviceId |-> <<"A">>]

\* what localStorage['barcodelink_settings'] can hold when the App starts
SettingsBlobs ==
    {NoSettingsStored, saveSettings(SavedSettings),
     [has |-> TRUE,
      data |-> [remotePath |-> <<QUOTE, BSL>>, autoSync |-> "true",
                deviceId |-> JSONString(<<"A">>)]]}

\* the first render of App: every useState at its initial value,
\* settings at getSettings(), no effect run yet
InitStartup ==
    /\ access \in {"ok", "denied"}
    /\ stored \in ItemBlobs
    /\ storedSettings \in SettingsBlobs
    /\ settings = getSettings(storedSettings)
    /\ phase = "rendered"
    /\ view = "home"
    /\ mode = "single"
    /\ items = <<>>
    /\ queued = <<>>
    /\ isSyncing = FALSE
    /\ isOnline \in BOOLEAN
    /\ sync = NoSync
    /\ remoteWrites = 0
    /\ now = 0
    /\ lastScanned = Null
    /\ timers = {}
    /\ orphan = "none"
    /\ accepted = [c \in AllCodes |-> 0]
    /\ nScans = 0
    /\ lastAccepted = NoAccept
    /\ download = Null

\* the effects of the first render with the save effect placed first
MountEffects_SaveFirst ==
    /\ phase = "rendered"
    /\ SaveEffect(stored, items)
    /\ queued' = getStoredItems(stored')
    /\ UNCHANGED <<appVars, scannerVars, items, accepted, nScans, now,
                   lastAccepted, access, settings, storedSettings, download>>

\* the effects of the first render, in the order of the source: the mount
\* effect reads the stored ledger and hands it to setItems, then the save
\* effect saves the ledger of the first render, which is empty
MountEffects ==
    /\ phase = "rendered"
    /\ queued' = getStoredItems(stored)
    /\ SaveEffect(stored, items)
    /\ UNCHANGED <<appVars, scannerVars, items, accepted, nScans, now,
                   lastAccepted, access, settings, storedSettings, download>>

\* the render that the state updates of the mount effect ask for, and its
\* save effect (setItems was given a new array, so the effect runs);
\* nothing has written the settings key since the mount effect read it
Hydrate ==
    /\ phase = "mounted"
    /\ items' = queued
    /\ settings' = getSettings(storedSettings)
    /\ SaveEffect(stored, items')
    /\ UNCHANGED <<appVars, scannerVars, accepted, nScans, now, lastAccepted,
                   queued, access, storedSettings, download>>

NextStartup ==
    \/ MountEffects
    \/ Hydrate

SpecStartup == InitStartup /\ [][NextStartup]_vars

(* ------------------------------ export -------------------------------- *)

\* String(n).padStart(width, '0')
RECURSIVE PadStart(_, _)
PadStart(t, width) == IF Len(t) >= width THEN t ELSE PadStart(<<"0">> \o t, width)

\* new Date(t).toISOString() for an instant t of the first hour after the
\* epoch, where the clock of the model runs
toISOString(t) ==
    <<"1", "9", "7", "0", "-", "0", "1", "-", "0", "1", "T", "0", "0", ":">>
        \o PadStart(NumberToString(t \div 60000), 2) \o <<":">>
        \o PadStart(NumberToString((t % 60000) \div 1000), 2) \o <<".">>
        \o PadStart(NumberToString(t % 1000), 3) \o <<"Z">>

\* `${item.code}\t${item.quantity}\t${new Date(item.timestamp).toISOString()}`
exportLine(e) ==
    e.code \o <<TAB>> \o NumberToString(e.quantity) \o <<TAB>>
        \o toISOString(e.timestamp)

\* Array.prototype.join
RECURSIVE Join(_, _)
Join(parts, sep) ==
    IF parts = <<>> THEN <<>>
    ELSE IF Len(parts) = 1 THEN parts[1]
    ELSE parts[1] \o <<sep>> \o Join(Tail(parts), sep)

\* exportToTxt: the content of the file offered for download
exportToTxt(its) == Join([i \in 1..Len(its) |-> exportLine(its[i])], LF)

\* String.prototype.split(sep) from position k on, the characters of the
\* field being read in field
RECURSIVE SplitFrom(_, _, _, _)
SplitFrom(t, sep, k, field) ==
    IF k > Len(t) THEN <<field>>
    ELSE IF t[k] = sep THEN <<field>> \o SplitFrom(t, sep, k + 1, <<>>)
    ELSE SplitFrom(t, sep, k + 1, Append(field, t[k]))

\* String.prototype.split(sep)
Split(t, sep) == SplitFrom(t, sep, 1, <<>>)

\* the text is a toISOString() result of the first hour after the epoch
IsISOString(t) ==
    /\ Len(t) = 24
    /\ SubSeq(t, 1, 14) = SubSeq(toISOString(0), 1, 14)
    /\ IsDigit(t[15]) /\ IsDigit(t[16]) /\ t[17] = ":"
    /\ IsDigit(t[18]) /\ IsDigit(t[19]) /\ t[20] = "."
    /\ IsDigit(t[21]) /\ IsDigit(t[22]) /\ IsDigit(t[23]) /\ t[24] = "Z"

\* Date.parse of such a text
DateParse(t) ==
    60000 * StringToNumber(SubSeq(t, 15, 16))
        + 1000 * StringToNumber(SubSeq(t, 18, 19))
        + StringToNumber(SubSeq(t, 21, 23))

\* an exported ledger has at most this many entries
MaxExported == 2

\* payloads with a tab and with a line break, as a QR symbol can carry
cTabbed == <<"1", TAB, "2">>
cTwoLines == <<"1", LF, "2">>

\* codes of the entries of an exported ledger
ExportCodes == {c123, cTabbed, cTwoLines}

ExportShapes == [code : ExportCodes, quantity : {1, 2}, timestamp : {0, Tick}]

\* the ledgers export is applied to: newest first, ids in the order of
\* creation
ExportLedgers ==
    {[i \in 1..Len(shapes) |->
         [id |-> Len(shapes) - i + 1, code |-> shapes[i].code,
          timestamp |-> shapes[i].timestamp,
          quantity |-> shapes[i].quantity, synced |-> FALSE]] :
        shapes \in UNION {[1..n -> ExportShapes] : n \in 0..MaxExported}}

\* the history view over a ledger that is saved and not exported yet
InitExport ==
    /\ access = "ok"
    /\ view = "history"
    /\ mode = "single"
    /\ items \in ExportLedgers
    /\ stored = saveStoredItems(items)
    /\ isSyncing = FALSE
    /\ isOnline \in BOOLEAN
    /\ sync = NoSync
    /\ remoteWrites = 0
    /\ now = 0
    /\ lastScanned = Null
    /\ timers = {}
    /\ orphan = "none"
    /\ accepted = [c \in AllCodes |-> 0]
    /\ nScans = 0
    /\ lastAccepted = NoAccept
    /\ phase = "running"
    /\ queued = <<>>
    /\ storedSettings = NoSettingsStored
    /\ settings = getSettings(storedSettings)
    /\ download = Null

\* the download button of the history view: onClick={() => exportToTxt(items)}
ExportToTxt ==
    /\ view = "history"
    /\ download' = exportToTxt(items)
    /\ UNCHANGED <<appVars, scannerVars, ledgerVars, now, lastAccepted,
                   queued, access, settings, storedSettings>>

NextExport == ExportToTxt

SpecExport == InitExport /\ [][NextExport]_vars

(* ------------------------- storage that fills ------------------------- *)

\* the quota of the origin is used up (by this key, by the other keys of
\* the origin, by another tab): from here on setItem throws
StorageFills ==
    /\ phase = "running"
    /\ access = "ok"
    /\ access' = "full"
    /\ UNCHANGED <<appVars, scannerVars, ledgerVars, now, lastAccepted,
                   queued, settings, storedSettings, download>>

\* the program while it is mounted, with a storage that can fill up; once
\* React has unmounted the App there is no handler, effect or state left
Mounted == phase = "running"

NextQuota ==
    \/ Mounted /\ StartSession
    \/ Mounted /\ CloseScanner
    \/ Mounted /\ OpenHistory
    \/ Mounted /\ Back
    \/ Mounted /\ HandleOnline
    \/ Mounted /\ HandleOffline
    \/ Mounted /\ HandleManualSubmit
    \/ Mounted /\ DetectLoop
    \/ Mounted /\ OrphanResolve
    \/ Mounted /\ TimerFire
    \/ Mounted /\ HandleSync
    \/ Mounted /\ SyncComplete
    \/ Mounted /\ HandleClearData
    \/ Mounted /\ AdvanceTime
    \/ StorageFills

SpecQuota == Init /\ [][NextQuota]_vars

(* ------------------------------- claims ------------------------------- *)

\* C1 (as claimed): whenever an entry becomes synced, its id, quantity and
\* timestamp are those of an entry of the snapshot that was passed to
\* syncToRemote; an entry created or re-scanned after the snapshot never
\* becomes synced by that sync's completion.
C1_SyncedOnlyFromSnapshot ==
    [][\A i \in Indices(items') :
          (/\ items'[i].synced
           /\ ~\E j \in Indices(items) :
                  items[j].id = items'[i].id /\ items[j].synced)
          => \E k \in Indices(sync.snap) :
                /\ sync.snap[k].id = items'[i].id
                /\ sync.snap[k].quantity = items'[i].quantity
                /\ sync.snap[k].timestamp = items'[i].timestamp]_vars

\* C2 (as claimed): while Capturing in Series mode the ledger has at most one
\* entry per code, whatever sessions came before.
C2_SeriesUniqueAfterAnyHistory ==
    (view = "scanning" /\ mode = "series") => NoDuplicateCodes

\* C2 (amended): only a Single-mode handleScan can give the ledger a second
\* entry for a code.  A ledger with at most one entry per code keeps that
\* through every Series-mode scan and every other step, so while Capturing
\* in Series mode it has at most one entry per code unless a Single-mode
\* scan duplicated a code since the ledger was last empty.
C2_OnlySingleDuplicates ==
    [][(NoDuplicateCodes /\ ~NoDuplicateCodes')
          => (ScanApplied /\ ScanMode = "single")]_vars

\* a Series session has counted one code twice and scanned another
C2_Witness ==
    /\ view = "scanning"
    /\ mode = "series"
    /\ NoDuplicateCodes
    /\ Len(items) = 2
    /\ lastAccepted.code = items[1].code
    /\ items[1].quantity = 2

\* C3: every Series-mode scan adds exactly 1 to the sum of the quantities of
\* the entries with the scanned code and leaves the sums of the other codes
\* unchanged, so from the empty ledger the sum for a code is the number of
\* onScan calls for it.
C3_SeriesQuantitySum ==
    [][\A c \in AllCodes :
          (Scanned(c) /\ ScanMode = "series") =>
              /\ SumQty(items', c) = SumQty(items, c) + 1
              /\ \A d \in AllCodes \ {c} :
                    SumQty(items', d) = SumQty(items, d)]_vars

\* a Series session starting from the empty ledger has the sums 2 and 1 for
\* the onScan calls made
C3_Witness ==
    /\ view = "scanning"
    /\ mode = "series"
    /\ nScans = 3
    /\ accepted[c123] = 2 /\ SumQty(items, c123) = 2
    /\ accepted[c456] = 1 /\ SumQty(items, c456) = 1
    /\ Len(items) = 2

\* C4: every Single-mode scan makes the ledger one entry longer: it puts a
\* new entry with quantity 1, synced false and an unused id at the front and
\* keeps all entries, also when the code is already in the ledger; from the
\* empty ledger the length is the number of onScan calls.  Scanning 123
\* twice gives two quantity-1 entries with distinct ids.
C4_SingleStep ==
    \A c \in AllCodes :
        (Scanned(c) /\ ScanMode = "single") => Prepended(items, items', c)

C4_Scenario ==
    LET r == handleScanUpdate(handleScanUpdate(<<>>, "single", c123, 0, 1),
                              "single", c123, Tick, 2) IN
    /\ Len(r) = 2
    /\ r[1].code = c123 /\ r[1].quantity = 1
    /\ r[2].code = c123 /\ r[2].quantity = 1
    /\ r[1].id # r[2].id

C4_SingleAppends == []C4_Scenario /\ [][C4_SingleStep]_vars

\* the same code was scanned twice in Single mode into the empty ledger
C4_Witness ==
    /\ mode = "single"
    /\ nScans = 2
    /\ Total(accepted, AllCodes) = 2
    /\ Len(items) = 2
    /\ items[1].code = items[2].code
    /\ items[1].id # items[2].id
    /\ items[1].quantity = 1 /\ items[2].quantity = 1

\* C5: a Series-mode scan of a code the ledger holds takes the first entry
\* with that code out of its place, adds 1 to its quantity, stamps it with
\* the scan time, clears synced and puts it at the front; a Series-mode scan
\* of a code the ledger does not hold puts a new quantity-1 entry at the
\* front.  Scanning 123, 456, 123 into the empty ledger gives
\* [123 quantity 2, 456 quantity 1].
C5_SeriesStep ==
    \A c \in AllCodes :
        (Scanned(c) /\ ScanMode = "series") =>
            IF FirstWith(items, c) = 0
            THEN Prepended(items, items', c)
            ELSE MovedToFront(items, items', FirstWith(items, c))

C5_Scenario ==
    LET r == handleScanUpdate(
                 handleScanUpdate(
                     handleScanUpdate(<<>>, "series", c123, 0, 1),
                     "series", c456, Tick, 2),
                 "series", c123, Tick + Tick, 3) IN
    /\ Len(r) = 2
    /\ r[1].code = c123 /\ r[1].quantity = 2
    /\ r[2].code = c456 /\ r[2].quantity = 1

C5_SeriesApply == []C5_Scenario /\ [][C5_SeriesStep]_vars

\* 123, 456, 123 were scanned in a Series session into the empty ledger: 123
\* was created first and is in front of 456 with quantity 2
C5_Witness ==
    /\ view = "scanning"
    /\ mode = "series"
    /\ nScans = 3
    /\ Len(items) = 2
    /\ items[1].code = c123 /\ items[1].quantity = 2 /\ items[1].id = 1
    /\ items[2].code = c456 /\ items[2].quantity = 1 /\ items[2].id = 2

\* C6 (as claimed): a code the camera decodes is not accepted again when it
\* is the code accepted last and less than the suppression window has passed.
C6_CameraDebounced ==
    [][(LiveScan /\ lastAccepted'.src = "camera")
          => ~(/\ lastAccepted.code = lastAccepted'.code
               /\ now - lastAccepted.at < SuppressionWindow)]_vars

\* C7 (as claimed): two onScan calls of a session for the same code with no
\* call for another code between them are at least 2000 ms apart.
C7_SameCodeSpacing ==
    [][(LiveScan /\ lastAccepted.code = lastAccepted'.code)
          => lastAccepted'.at - lastAccepted.at >= SuppressionWindow]_vars

ManualAccepts(c) == HandleManualSubmit /\ Scanned(c) /\ lastScanned' = c

C9_NoScanWhileIdle ==
    [][view # "scanning" => ~ScanApplied]_vars

\* C10 (as claimed): no entry's code is empty or only whitespace.
C10_NoBlankCode ==
    \A i \in Indices(items) : Truthy(Trim(items[i].code))

\* C11: at most one syncToRemote call is outstanding in every reachable
\* state, and while a sync is pending (isSyncing) no step issues another
\* remote write or replaces the pending one: the sync button is disabled, so
\* a second request does not reach handleSync.
C11_NoSecondWrite ==
    isSyncing =>
        /\ remoteWrites' <= remoteWrites
        /\ sync'.active => sync' = sync
        /\ ~HandleSync

C11_SingleFlight ==
    /\ [](remoteWrites <= 1 /\ (isSyncing <=> remoteWrites = 1))
    /\ [][C11_NoSecondWrite]_vars

\* a sync is pending while the history view shows a non-empty ledger and the
\* device is online: only the flag keeps the button disabled
C11_Witness ==
    /\ view = "history"
    /\ isSyncing
    /\ remoteWrites = 1
    /\ Len(items) > 0
    /\ isOnline
    /\ now + SyncLatency <= MaxTime

\* C12: whenever a sync has started, isSyncing becomes false again, however
\* the awaited remote call settles (true, false or a rejection); the step
\* that releases the flag leaves no remote call outstanding, and from then on
\* the flag no longer disables the sync button.
C12_ReleaseStep ==
    (isSyncing /\ ~isSyncing') =>
        /\ \E outcome \in AwaitOutcomes : SyncSettleWith(outcome)
        /\ remoteWrites' = 0
        /\ ~sync'.active
        /\ SyncDisabled' <=> (Len(items') = 0 \/ ~isOnline')

C12_FlagReleased ==
    /\ isSyncing ~> ~isSyncing
    /\ [][C12_ReleaseStep]_vars

\* a sync was started and has settled: its entry is marked, the flag is
\* released and the sync button is enabled again
C12_Witness ==
    /\ view = "history"
    /\ ~isSyncing
    /\ remoteWrites = 0
    /\ now >= SyncLatency
    /\ Len(items) = 1
    /\ items[1].synced
    /\ ~SyncDisabled

\* C13: when the awaited remote call resolves false or rejects, the step in
\* which handleSync finishes leaves the ledger and its stored copy exactly as
\* they were; a step that releases the flag either changes no entry or
\* leaves every entry synced, never only some of them.
C13_FailureStep ==
    /\ \A outcome \in AwaitOutcomes \ {"true"} :
          SyncSettleWith(outcome) => (items' = items /\ stored' = stored)
    /\ (isSyncing /\ ~isSyncing') =>
          \/ items' = items
          \/ \A i \in Indices(items') : items'[i].synced

C13_FailureLeavesLedger == [][C13_FailureStep]_vars

\* the remote call of a sync is about to fail while the ledger holds an
\* entry of the snapshot and an entry scanned after it, both unsynced
C13_Witness ==
    /\ isSyncing
    /\ SyncDue
    /\ Len(sync.snap) = 1
    /\ Len(items) = 2
    /\ items[2] = sync.snap[1]
    /\ ~items[1].synced /\ ~items[2].synced
    /\ ENABLED SyncSettleWith("false")
    /\ ENABLED SyncSettleWith("rejected")

\* entry e is as the snapshot of the pending sync holds it: same id and not
\* re-scanned since (same quantity and timestamp)
InSnapshot(e) ==
    \E k \in Indices(sync.snap) :
        /\ sync.snap[k].id = e.id
        /\ sync.snap[k].quantity = e.quantity
        /\ sync.snap[k].timestamp = e.timestamp

\* C14: in the step that completes a successful sync, every entry of the
\* ledger that was in the snapshot passed to syncToRemote and has not been
\* re-scanned since has synced = true afterwards, and the entries are
\* otherwise as before.
C14_CompletionStep ==
    SyncComplete =>
        /\ Len(items') = Len(items)
        /\ \A i \in Indices(items) :
              /\ items'[i] = [items[i] EXCEPT !.synced = items'[i].synced]
              /\ InSnapshot(items[i]) => items'[i].synced

C14_SnapshotMarked == [][C14_CompletionStep]_vars

\* a sync of two entries has completed and both are marked
C14_Witness ==
    /\ ~isSyncing
    /\ remoteWrites = 0
    /\ now >= SyncLatency
    /\ Len(items) = 2
    /\ items[1].synced /\ items[2].synced
    /\ items[1].id # items[2].id

\* a step that issues a remote write or sets the in-flight flag
StartsSync == remoteWrites' > remoteWrites \/ (isSyncing' /\ ~isSyncing)

\* C15: while the ledger is empty a sync request has no effect: no step of
\* handleSync changes the state, no remote write is issued and the in-flight
\* flag is not set.
C15_EmptyStep ==
    Len(items) = 0 => (~HandleSync /\ ~StartsSync)

C15_EmptyRejected == [][C15_EmptyStep]_vars

\* the history view shows a ledger that was filled and cleared while the
\* device is online and no sync is pending: only the emptiness of the ledger
\* stands against a sync
C15_Witness ==
    /\ view = "history"
    /\ Len(items) = 0
    /\ nScans > 0
    /\ isOnline
    /\ ~isSyncing
    /\ now + SyncLatency <= MaxTime
    /\ ~ENABLED HandleSync

\* C16: while the device is offline a sync request on a non-empty ledger has
\* no effect: no step of handleSync changes the state (the ledger included),
\* no remote write is issued and the in-flight flag is not set.
C16_OfflineStep ==
    (~isOnline /\ Len(items) > 0) => (~HandleSync /\ ~StartsSync)

C16_OfflineRejected == [][C16_OfflineStep]_vars

\* the history view shows a non-empty ledger while the device is offline and
\* no sync is pending: only the connectivity stands against a sync
C16_Witness ==
    /\ view = "history"
    /\ Len(items) > 0
    /\ ~isOnline
    /\ ~isSyncing
    /\ now + SyncLatency <= MaxTime
    /\ ~ENABLED HandleSync

\* the entry at i of the ledger after the step is synced and was not so
\* before the step
BecomesSynced(i) ==
    /\ items'[i].synced
    /\ ~\E j \in Indices(items) :
           items[j].id = items'[i].id /\ items[j].synced

\* C17: after every handleScan the entry it created or incremented (the one
\* at the front, carrying the scanned code and the scan time) has synced =
\* false, whether or not it was synced before; an entry becomes synced only
\* in the step that completes a successful sync.
C17_SyncedStep ==
    /\ \A c \in AllCodes :
          Scanned(c) =>
              /\ items'[1].code = c
              /\ items'[1].timestamp = now
              /\ ~items'[1].synced
    /\ (\E i \in Indices(items') : BecomesSynced(i)) => SyncComplete

C17_ScanClearsSynced == [][C17_SyncedStep]_vars

\* two entries were synced and the older one was then scanned again: it is
\* at the front with quantity 2 and unsynced, the other one is still synced
C17_Witness ==
    /\ Len(items) = 2
    /\ items[1].id < items[2].id
    /\ items[1].quantity = 2
    /\ ~items[1].synced
    /\ items[2].synced
    /\ ~isSyncing

\* timestamps do not increase from the front of the ledger to its back
NewestFirst ==
    \A i, j \in Indices(items) :
        i < j => items[i].timestamp >= items[j].timestamp

\* C18: the ledger is ordered most-recently-touched-first.  After every
\* handleScan the entry it created (a new id, quantity 1) or incremented (an
\* id of the ledger, quantity + 1) is at index 0, stamped with the scan time,
\* and the other entries follow in the order they had; with a clock that
\* does not go back and a ledger that started empty, timestamps never
\* increase from front to back.
C18_TouchStep ==
    \A c \in AllCodes :
        Scanned(c) =>
            /\ items'[1].code = c
            /\ items'[1].timestamp = now
            /\ \/ items'[1].id \notin Ids(items) /\ items'[1].quantity = 1
               \/ \E k \in Indices(items) :
                     /\ items[k].id = items'[1].id
                     /\ items'[1].quantity = items[k].quantity + 1
            /\ \A i, j \in Indices(items) :
                  (/\ i < j
                   /\ items[i].id # items'[1].id
                   /\ items[j].id # items'[1].id)
                  => \E p, q \in 2..Len(items') :
                        p < q /\ items'[p] = items[i] /\ items'[q] = items[j]

C18_MostRecentFirst == []NewestFirst /\ [][C18_TouchStep]_vars

\* an entry older than the one behind it was scanned again later and is at
\* the front with the later timestamp
C18_Witness ==
    /\ Len(items) = 2
    /\ items[1].id < items[2].id
    /\ items[1].quantity = 2
    /\ items[1].timestamp > items[2].timestamp
    /\ items[2].timestamp > 0

\* C19: while the scanner is shown the mode does not change: a step from the
\* scanning view to the scanning view keeps mode, so from the start of a
\* session to its close mode is the value chosen at the start; every onScan
\* call of the shown scanner happens in the scanning view and is applied to
\* the ledger under that mode.
C19_SessionStep ==
    /\ (view = "scanning" /\ view' = "scanning") => mode' = mode
    /\ \A c \in AllCodes :
          (LiveScan /\ Scanned(c)) =>
              /\ view = "scanning" /\ view' = "scanning"
              /\ items' = handleScanUpdate(items, mode', c, now, randomUUID)

C19_ModeFixedInSession == [][C19_SessionStep]_vars

\* a session started in Series mode (not the initial mode) has counted the
\* same hand-typed code twice
C19_Witness ==
    /\ view = "scanning"
    /\ mode = "series"
    /\ lastAccepted = [code |-> c456, at |-> now, src |-> "manual"]
    /\ Len(items) = 1
    /\ items[1].code = c456
    /\ items[1].quantity = 2

\* C20: an entry leaves the ledger only in handleClearData: in every other
\* step (scans, sync start and completion, opening and closing the scanner,
\* navigation, connectivity changes, timers) every id of the ledger is still
\* in it afterwards; a confirmed clear leaves the ledger, and its stored
\* copy, empty.
C20_RemovalStep ==
    /\ ~(Ids(items) \subseteq Ids(items')) => HandleClearData
    /\ HandleClearData =>
          /\ items' = <<>>
          /\ getStoredItems(stored') = <<>>

C20_OnlyClearRemoves == [][C20_RemovalStep]_vars

\* a ledger that held two entries has been cleared
C20_Witness ==
    /\ view = "history"
    /\ nScans = 2
    /\ items = <<>>
    /\ getStoredItems(stored) = <<>>
    /\ \A c \in AllCodes : accepted[c] = 0

\* no two entries of the ledger have the same id, and every id in the ledger
\* was returned by one of the randomUUID calls made so far (the k-th
\* handleScan call asks for at most one id, k)
IdsUniqueAndIssued ==
    /\ \A i, j \in Indices(items) : items[i].id = items[j].id => i = j
    /\ \A i \in Indices(items) : items[i].id \in 1..nScans

\* C21: ids are unique within the ledger in every reachable state; a Series
\* scan that increments an entry leaves it its id; an entry that a scan
\* creates gets an id that no entry had before, entries removed by a clear
\* included (ids in the ledger never exceed the number of handleScan calls
\* made, and a new id does).
C21_IdStep ==
    \A c \in AllCodes :
        Scanned(c) =>
            IF ScanMode = "series" /\ FirstWith(items, c) > 0
            THEN /\ items'[1].id = items[FirstWith(items, c)].id
                 /\ Ids(items') = Ids(items)
            ELSE /\ items'[1].id \notin 1..nScans
                 /\ Ids(items') = Ids(items) \cup {items'[1].id}

C21_IdsNeverReused == []IdsUniqueAndIssued /\ [][C21_IdStep]_vars

\* after a clear that removed the entry with id 1, a Series session has
\* created an entry and incremented it: it got a later id and kept it
C21_Witness ==
    /\ nScans = 3
    /\ Len(items) = 1
    /\ items[1].id = 2
    /\ items[1].quantity = 2
    /\ Total(accepted, AllCodes) = 2

\* C22: the ledger is persisted on every mutation: once a scan, a sync
\* completion or a clear has been processed and its save effect has run, the
\* stored text is present and is the text of the in-memory ledger.
C22_PersistedEqualsLedger ==
    /\ stored.has
    /\ stored.data = JSONStringify(items)

\* a scan, a completed sync and a later scan have been saved: the stored
\* text holds a synced and an unsynced entry
C22_Witness ==
    /\ Len(items) = 2
    /\ items[2].synced
    /\ ~items[1].synced
    /\ Len(stored.data) = 2
    /\ stored.data[2].synced = "true"
    /\ stored.data[1].synced = "false"

\* C26: quantity is conserved across modes: whatever Single and Series
\* sessions, syncs and returns to the home view came before, for every code
\* the quantities of its entries add up to the number of handleScan calls
\* made for it since the last clear.
C26_QuantityConserved ==
    \A c \in AllCodes : SumQty(items, c) = accepted[c]

\* three scans of one code, by a Series and by a Single session, are held
\* by an entry of quantity 2 and an entry of quantity 1
C26_Witness ==
    /\ Len(items) = 2
    /\ items[1].code = items[2].code
    /\ items[1].quantity + items[2].quantity = 3
    /\ accepted[items[1].code] = 3

\* the entries that the pending handleSync wrote are no longer in the
\* ledger: a clear was confirmed while the sync was in flight
ClearedInFlight ==
    /\ sync.active
    /\ \A k \in Indices(sync.snap) : sync.snap[k].id \notin Ids(items)

\* C27: when a clear was confirmed while a sync was in flight, the step that
\* completes the sync brings none of the cleared entries back (the ledger is
\* still empty if nothing was scanned since) and keeps the entries scanned
\* after the clear, in their order.
C27_CompletionStep ==
    (ClearedInFlight /\ ~sync'.active) =>
        /\ Len(items') = Len(items)
        /\ items = <<>> => items' = <<>>
        /\ \A i \in Indices(items) :
              /\ items'[i].id = items[i].id
              /\ items'[i].code = items[i].code
              /\ items'[i].quantity = items[i].quantity

C27_ClearSurvivesSync == [][C27_CompletionStep]_vars

\* the first entry was synced and cleared in flight; the entry scanned after
\* the clear is the whole ledger once the sync has completed
C27_Witness ==
    /\ ~sync.active
    /\ ~isSyncing
    /\ Len(items) = 1
    /\ items[1].id = 2
    /\ items[1].timestamp > 0
    /\ items[1].synced

\* its without the entry at position k; its itself when k = 0
Without(its, k) ==
    IF k = 0 THEN its
    ELSE [i \in 1..(Len(its) - 1) |-> IF i < k THEN its[i] ELSE its[i + 1]]

\* C29: an accepted scan changes at most one existing entry: in Series mode
\* the first entry from the front with the scanned code, in Single mode none.
\* Behind the entry that the scan puts at the front, all other entries
\* follow with every field, synced included, and in their order.
C29_FrameStep ==
    \A c \in AllCodes :
        Scanned(c) =>
            LET k == IF ScanMode = "series" THEN FirstWith(items, c) ELSE 0
            IN  /\ Tail(items') = Without(items, k)
                /\ k > 0 => items'[1].id = items[k].id

C29_OthersUntouched == [][C29_FrameStep]_vars

\* of two entries with the same code a Series scan has incremented the one
\* nearer the front and left the other as it was
C29_Witness ==
    /\ Len(items) = 2
    /\ items[1].code = items[2].code
    /\ items[1].id = 2
    /\ items[1].quantity = 2
    /\ items[2].id = 1
    /\ items[2].quantity = 1

\* a step of handleSync: the one that issues the request or the one in
\* which the awaited call settles
SyncStep == sync' # sync \/ StartsSync

\* C30: a sync, from the request to its completion and whatever its
\* outcome, changes no entry's id, code, quantity or timestamp and neither
\* the length nor the order of the ledger: its steps change synced flags
\* only.
C30_SyncedOnlyStep ==
    SyncStep =>
        /\ Len(items') = Len(items)
        /\ \A i \in Indices(items) :
              items'[i] = [items[i] EXCEPT !.synced = items'[i].synced]

C30_SyncChangesFlagsOnly == [][C30_SyncedOnlyStep]_vars

\* a sync of a ledger of two has completed: both entries are there, in
\* their order and with their quantities, and both are marked
C30_Witness ==
    /\ ~sync.active
    /\ Len(items) = 2
    /\ items[1].synced /\ items[2].synced
    /\ items[1].id = 2 /\ items[2].id = 1
    /\ items[1].code # items[2].code
    /\ nScans = 2

\* C28: startup hydration loses nothing.  For every persisted ledger L that
\* localStorage gives out, the mount effects hand L to setItems although
\* the save effect, running with the empty initial state, overwrites the
\* stored text with the empty array; and the re-render makes the in-memory
\* ledger the one that was handed over and stores its text again.
C28_HydrationStep ==
    /\ (phase = "rendered" /\ phase' = "mounted") =>
          \A L \in PersistedLedgers :
              stored = saveStoredItems(L) =>
                  /\ queued' = L
                  /\ stored'.has /\ stored'.data = <<>>
    /\ (phase = "mounted" /\ phase' = "running") =>
          /\ items' = queued
          /\ stored'.has
          /\ JSONParse(stored'.data).ok
          /\ JSONParse(stored'.data).value = queued

C28_HydrationLosesNothing == [][C28_HydrationStep]_vars

\* a stored ledger of two entries, one of them with a quote, a backslash
\* and a tab in its code, is in memory and in localStorage after startup
C28_Witness ==
    /\ phase = "running"
    /\ Len(items) = 2
    /\ items[1].code = cQuoted
    /\ items[2].synced
    /\ queued = items
    /\ stored.has
    /\ Len(stored.data) = 2

\* loading the ledger fails: getItem throws, the key is missing, or the
\* stored text does not parse
ItemsLoadFails ==
    access = "denied" \/ ~stored.has \/ ~JSONParse(stored.data).ok

\* loading the settings fails in one of the same ways
SettingsLoadFails ==
    \/ access = "denied"
    \/ ~storedSettings.has
    \/ ~JSONParseSettings(storedSettings.data).ok

\* C24 (as claimed): when loading the persisted ledger or the settings fails
\* (missing key, read error, unparsable text), startup continues: the
\* effects of the first render end with the App mounted, an empty ledger
\* handed to setItems where the ledger failed to load and the default
\* settings in place where the settings failed to load.
C24_ContinuesStep ==
    (phase = "rendered" /\ phase' # "rendered"
        /\ (ItemsLoadFails \/ SettingsLoadFails)) =>
        /\ phase' = "mounted"
        /\ ItemsLoadFails => queued' = <<>>
        /\ SettingsLoadFails => settings' = DEFAULT_SETTINGS

C24_LoadFailureTolerated == [][C24_ContinuesStep]_vars

\* C23 (as claimed): a save that fails is not fatal: the step of a scan
\* whose save cannot be written leaves the App running with the scan
\* applied to the in-memory ledger, so that the session goes on.
C23_FailedSaveStep ==
    (ScanApplied /\ access # "ok") =>
        /\ phase' = "running"
        /\ Len(items') >= 1
        /\ stored' = stored

C23_SaveFailureNotFatal == [][C23_FailedSaveStep]_vars

\* what a reader gets from line i of the export by splitting it on tabs
ExportedFields(i) == Split(Split(download, LF)[i], TAB)

\* C25 (as claimed): the exported text has one line per entry, in ledger
\* order, and splitting it on newlines and each line on tabs recovers the
\* code, the quantity and the timestamp of every entry, for every ledger
\* whose codes are non-empty strings.
C25_ExportRoundTrip ==
    (download # Null /\ items # <<>>
        /\ \A i \in Indices(items) : items[i].code # <<>>) =>
        /\ Len(Split(download, LF)) = Len(items)
        /\ \A i \in Indices(items) :
              /\ Len(ExportedFields(i)) = 3
              /\ ExportedFields(i)[1] = items[i].code
              /\ IsNumberText(ExportedFields(i)[2])
              /\ StringToNumber(ExportedFields(i)[2]) = items[i].quantity
              /\ IsISOString(ExportedFields(i)[3])
              /\ DateParse(ExportedFields(i)[3]) = items[i].timestamp

====
